---- MODULE Spec2Model ----
(***************************************************************************)
(* Model of app.py: the QRCodeGenerator class (constructor, make_png,      *)
(* make_svg, save) and the command-line pipeline main().                   *)
(*                                                                         *)
(* Strings that the code takes apart (output paths) are sequences of       *)
(* one-character strings, so that os.path.splitext, os.path.dirname and    *)
(* str.lower are computed the way the library computes them.               *)
(***************************************************************************)
EXTENDS Integers, Sequences, FiniteSets, TLC

VARIABLES
    PIL_AVAILABLE,   \* module flag _PIL_AVAILABLE
    SVG_AVAILABLE,   \* module flag _SVG_AVAILABLE
    args,            \* the request: CLI namespace / GUI variables / caller's inputs
    gen,             \* the QRCodeGenerator object, or None
    obj,             \* the image object last returned by make_png / make_svg, or None
    dirs,            \* directories that exist
    files,           \* files that exist: path -> sequence of chunks written
    ret,             \* outcome of the last call: [op, exc, msg, value]
    pc,              \* position of main()
    exit_code,       \* exit status of the process running main(), or None
    log,             \* what the current main() run has done so far, in order
    files0,          \* the files when main() started
    dirs0            \* the directories when main() started

vars == <<PIL_AVAILABLE, SVG_AVAILABLE, args, gen, obj, dirs, files, ret,
          pc, exit_code, log, files0, dirs0>>

\* Python None, and an optional value: <<>> or <<v>>
None == <<>>
Some(v) == <<v>>
NoExc == "None"

-----------------------------------------------------------------------------
(* Bounds of the model *)

\* box sizes tried are 0 .. MaxBox
MaxBox == 2
\* borders tried are -1 .. MaxBorder
MaxBorder == 1

-----------------------------------------------------------------------------
(* Strings *)

UpperCase == <<"A","B","C","D","E","F","G","H","I","J","K","L","M",
               "N","O","P","Q","R","S","T","U","V","W","X","Y","Z">>
LowerCase == <<"a","b","c","d","e","f","g","h","i","j","k","l","m",
               "n","o","p","q","r","s","t","u","v","w","x","y","z">>

\* str.lower() on one character
LowerChar(c) ==
    IF \E i \in 1..Len(UpperCase) : UpperCase[i] = c
    THEN LowerCase[CHOOSE i \in 1..Len(UpperCase) : UpperCase[i] = c]
    ELSE c

\* str.lower()
Lower(s) == [i \in 1..Len(s) |-> LowerChar(s[i])]

\* str.rfind(c), 1-based; 0 when c does not occur (Python: -1)
RFind(s, c) ==
    IF \E i \in 1..Len(s) : s[i] = c
    THEN CHOOSE i \in 1..Len(s) : s[i] = c /\ \A j \in (i+1)..Len(s) : s[j] # c
    ELSE 0

\* os.path.splitext: the extension starts at the last dot of the last path
\* component, unless that component has only dots before it
SplitExt(p) ==
    LET sepIndex == RFind(p, "/")
        dotIndex == RFind(p, ".")
    IN  IF dotIndex > sepIndex
           /\ \E k \in (sepIndex+1)..(dotIndex-1) : p[k] # "."
        THEN <<SubSeq(p, 1, dotIndex-1), SubSeq(p, dotIndex, Len(p))>>
        ELSE <<p, <<>>>>

\* str.rstrip("/")
RECURSIVE RStripSlash(_)
RStripSlash(s) ==
    IF Len(s) > 0 /\ s[Len(s)] = "/" THEN RStripSlash(SubSeq(s, 1, Len(s)-1)) ELSE s

\* os.path.dirname (posixpath)
DirName(p) ==
    LET i    == RFind(p, "/")
        head == SubSeq(p, 1, i)
    IN  IF head # <<>> /\ \E k \in 1..Len(head) : head[k] # "/"
        THEN RStripSlash(head)
        ELSE head

EXT_PNG == <<".","p","n","g">>
EXT_SVG == <<".","s","v","g">>
DOT     == <<".">>

\* os.getcwd()
Cwd == <<"/","w">>

\* os.path.join(a, b) for a relative b
Join(a, b) == a \o <<"/">> \o b

-----------------------------------------------------------------------------
(* The file system *)

\* the current directory, the root, the working directory and one directory
\* in which nothing can be created or written (permission denied)

ReadOnlyDir == <<"r","o">>

InitDirs == {DOT, <<"/">>, Cwd, ReadOnlyDir}

\* os.makedirs(name, exist_ok=True): creates the missing ancestors first, then
\* name; mkdir inside a read-only directory raises PermissionError
RECURSIVE MakeDirs(_, _)
MakeDirs(name, ds) ==
    IF name \in ds THEN [ok |-> TRUE, dirs |-> ds]
    ELSE LET head == DirName(name)
             up   == IF head # <<>> /\ head # name /\ head \notin ds
                     THEN MakeDirs(head, ds)
                     ELSE [ok |-> TRUE, dirs |-> ds]
         IN  IF ~up.ok THEN up
             ELSE IF head = ReadOnlyDir
                  THEN [ok |-> FALSE, dirs |-> up.dirs]
                  ELSE [ok |-> TRUE, dirs |-> up.dirs \cup {name}]

\* a file can be opened for writing unless its directory is read-only
CanWrite(path) ==
    LET d == DirName(path) IN (IF d = <<>> THEN DOT ELSE d) # ReadOnlyDir

\* variant: the file is opened for appending ("ab") instead of "wb"
WriteFile_append(fs, path, chunks) ==
    [p \in DOMAIN fs \cup {path} |->
        IF p = path
        THEN (IF path \in DOMAIN fs THEN fs[path] ELSE <<>>) \o chunks
        ELSE fs[p]]

\* open(path, "wb") followed by writing chunks: the file holds exactly the chunks
WriteFile(fs, path, chunks) ==
    [p \in DOMAIN fs \cup {path} |-> IF p = path THEN chunks ELSE fs[p]]

NoFiles == [p \in {} |-> <<>>]

-----------------------------------------------------------------------------
(* The symbol encoder: qrcode.QRCode(version=None, ...).add_data(data),     *)
(* make(fit=True).  It grows the version until the payload fits and raises  *)
(* DataOverflowError when version 40 is too small at the error level.       *)

\* payloads, and their lengths in bytes
Payloads == {"", "a", "big"}

PayloadLen(data) ==
    CASE data = ""    -> 0
      [] data = "a"   -> 1
      [] data = "big" -> 2000

\* qrcode.constants.ERROR_CORRECT_*
ERR_MAP == [L |-> 1, M |-> 0, Q |-> 3, H |-> 2]

\* bytes a version-40 symbol holds at each error-correction constant
Capacity(ec) ==
    CASE ec = 1 -> 2953
      [] ec = 0 -> 2331
      [] ec = 3 -> 1663
      [] ec = 2 -> 1273

Fits(data, ec) == PayloadLen(data) <= Capacity(ec)

-----------------------------------------------------------------------------
(* Outcomes of calls.  exc is the exception raised ("None": the call        *)
(* returned), msg its message, value what the call returned.                *)

Returned(v)   == [exc |-> NoExc, msg |-> "", value |-> Some(v)]
Raised(e, m)  == [exc |-> e, msg |-> m, value |-> None]

MSG_ERROR_LEVEL == "error_level must be one of: L, M, Q, H"
MSG_BOX_BORDER  == "box_size >= 1 and border >= 0 required"
MSG_NO_PILLOW   == "Pillow is not installed. Install with: pip install pillow"
MSG_NO_SVG      == "qrcode[svg] not installed. Install with: pip install 'qrcode[svg]'"
MSG_BAD_EXT     == "Output path must end with .png or .svg (and ensure required deps are installed)."

-----------------------------------------------------------------------------
(* class QRCodeGenerator *)

\* variant: box_size compared with 0 instead of 1
QRCodeGenerator_box_off_by_one(error_level, box_size, border) ==
    IF error_level \notin DOMAIN ERR_MAP
    THEN Raised("ValueError", MSG_ERROR_LEVEL)
    ELSE IF box_size < 0 \/ border < 0
    THEN Raised("ValueError", MSG_BOX_BORDER)
    ELSE Returned([error_level |-> error_level,
                   box_size    |-> box_size,
                   border      |-> border])

\* variant: box_size and border stored in each other's attribute
QRCodeGenerator_swapped(error_level, box_size, border) ==
    IF error_level \notin DOMAIN ERR_MAP
    THEN Raised("ValueError", MSG_ERROR_LEVEL)
    ELSE IF box_size < 1 \/ border < 0
    THEN Raised("ValueError", MSG_BOX_BORDER)
    ELSE Returned([error_level |-> error_level,
                   box_size    |-> border,
                   border      |-> box_size])

\* variant: border is not checked
QRCodeGenerator_no_border_check(error_level, box_size, border) ==
    IF error_level \notin DOMAIN ERR_MAP
    THEN Raised("ValueError", MSG_ERROR_LEVEL)
    ELSE IF box_size < 1
    THEN Raised("ValueError", MSG_BOX_BORDER)
    ELSE Returned([error_level |-> error_level,
                   box_size    |-> box_size,
                   border      |-> border])

\* QRCodeGenerator.__init__
QRCodeGenerator(error_level, box_size, border) ==
    IF error_level \notin DOMAIN ERR_MAP
    THEN Raised("ValueError", MSG_ERROR_LEVEL)
    ELSE IF box_size < 1 \/ border < 0
    THEN Raised("ValueError", MSG_BOX_BORDER)
    ELSE Returned([error_level |-> error_level,
                   box_size    |-> box_size,
                   border      |-> border])

\* qrcode.QRCode(...); qr.add_data(data); qr.make(fit=True); qr.make_image(...)
\* (encoder: the call reached the symbol encoder)
QRImage(self, data, factory) ==
    [encoder |-> TRUE] @@
    IF Fits(data, ERR_MAP[self.error_level])
    THEN Returned([factory          |-> factory,
                   data             |-> data,
                   error_correction |-> ERR_MAP[self.error_level],
                   box_size         |-> self.box_size,
                   border           |-> self.border])
    ELSE Raised("DataOverflowError", "")

\* QRCodeGenerator.make_png
make_png(self, data, pil) ==
    IF ~pil
    THEN Raised("RuntimeError", MSG_NO_PILLOW) @@ [encoder |-> FALSE]
    ELSE QRImage(self, data, "PilImage")

SvgMethods == {"basic", "fragment", "path"}

\* QRCodeGenerator.make_svg
make_svg(self, data, method, svg) ==
    IF ~svg
    THEN Raised("RuntimeError", MSG_NO_SVG) @@ [encoder |-> FALSE]
    ELSE LET factory == IF method = "basic" THEN "SvgImage"
                        ELSE IF method = "fragment" THEN "SvgFragmentImage"
                        ELSE "SvgPathImage"
         IN  QRImage(self, data, factory)

IsRaster(o) == o.factory = "PilImage"
IsVector(o) == o.factory \in {"SvgImage", "SvgFragmentImage", "SvgPathImage"}

\* what an image object serialises to
PngBytes(o) == [format |-> "PNG", image |-> o]
SvgMarkup(o) == [format |-> "SVG", image |-> o]

\* obj.save(target) with target a path string.  PilImage picks the encoder
\* from the extension, which this branch makes .png; an SVG image hands the
\* name to ElementTree.write, which writes the markup into that file.
SaveToPath(o, target, fs) ==
    IF ~CanWrite(target)
    THEN [exc |-> "PermissionError", files |-> fs]
    ELSE [exc   |-> NoExc,
          files |-> WriteFile(fs, target,
                       IF IsRaster(o) THEN <<PngBytes(o)>> ELSE <<SvgMarkup(o)>>)]

\* with open(out_path, "wb") as f: obj.save(f).  The open truncates; an SVG
\* image writes its markup; a PilImage finds no encoder for the extension of
\* f.name and raises ValueError, leaving the file empty.
SaveToStream(o, out_path, fs) ==
    IF ~CanWrite(out_path)
    THEN [exc |-> "PermissionError", files |-> fs]
    ELSE IF IsVector(o)
    THEN [exc |-> NoExc, files |-> WriteFile(fs, out_path, <<SvgMarkup(o)>>)]
    ELSE [exc |-> "ValueError", files |-> WriteFile(fs, out_path, <<>>)]

\* variant: the directory is created only once a branch has accepted the
\* extension
save_makedirs_late(o, out_path, pil, ds, fs) ==
    LET ext == Lower(SplitExt(out_path)[2])
        dn  == DirName(out_path)
        md  == MakeDirs(IF dn # <<>> THEN dn ELSE DOT, ds)
    IN  IF ~((ext \in {EXT_PNG, <<>>} /\ pil) \/ ext = EXT_SVG)
        THEN Raised("ValueError", MSG_BAD_EXT) @@
             [dirs |-> ds, files |-> fs, branch |-> "none"]
        ELSE IF ~md.ok
        THEN Raised("PermissionError", "") @@
             [dirs |-> md.dirs, files |-> fs, branch |-> "none"]
        ELSE IF ext \in {EXT_PNG, <<>>} /\ pil
        THEN LET target == IF ext # <<>> THEN out_path ELSE out_path \o EXT_PNG
                 w      == SaveToPath(o, target, fs)
             IN  (IF w.exc = NoExc THEN Returned(target) ELSE Raised(w.exc, "")) @@
                 [dirs |-> md.dirs, files |-> w.files, branch |-> "png"]
        ELSE LET w == SaveToStream(o, out_path, fs)
             IN  (IF w.exc = NoExc THEN Returned(out_path) ELSE Raised(w.exc, "")) @@
                 [dirs |-> md.dirs, files |-> w.files, branch |-> "svg"]

\* QRCodeGenerator.save: [exc, msg, value, dirs, files, branch]
save(o, out_path, pil, ds, fs) ==
    LET ext == Lower(SplitExt(out_path)[2])
        dn  == DirName(out_path)
        md  == MakeDirs(IF dn # <<>> THEN dn ELSE DOT, ds)
    IN  IF ~md.ok
        THEN Raised("PermissionError", "") @@
             [dirs |-> md.dirs, files |-> fs, branch |-> "none"]
        ELSE IF ext \in {EXT_PNG, <<>>} /\ pil
        THEN LET target == IF ext # <<>> THEN out_path ELSE out_path \o EXT_PNG
                 w      == SaveToPath(o, target, fs)
             IN  (IF w.exc = NoExc THEN Returned(target) ELSE Raised(w.exc, "")) @@
                 [dirs |-> md.dirs, files |-> w.files, branch |-> "png"]
        ELSE IF ext = EXT_SVG
        THEN LET w == SaveToStream(o, out_path, fs)
             IN  (IF w.exc = NoExc THEN Returned(out_path) ELSE Raised(w.exc, "")) @@
                 [dirs |-> md.dirs, files |-> w.files, branch |-> "svg"]
        ELSE Raised("ValueError", MSG_BAD_EXT) @@
             [dirs |-> md.dirs, files |-> fs, branch |-> "none"]

-----------------------------------------------------------------------------
(* Inputs *)

\* error levels a caller may pass: the four of _ERR_MAP and one that is not
ErrorInputs == {"L", "M", "Q", "H", "X"}
BoxInputs == 0..MaxBox
BorderInputs == -1..MaxBorder

\* what argparse lets through for --error
ValidErrorChoices == {"L", "M", "Q", "H"}

\* requested output paths
OutPaths ==
    { <<"o">>,                                         \* out
      <<"o",".","j","p","g">>,                         \* out.jpg
      <<"o",".","p","n","g">>,                         \* out.png
      <<"o",".","P","N","G">>,                         \* out.PNG
      <<"o",".","s","v","g">>,                         \* out.svg
      <<"n","/","d","/","o",".","p","n","g">>,         \* n/d/out.png
      <<"n","/","o",".","j","p","g">>,                 \* n/out.jpg
      <<"n",".","d","/","o">>,                         \* n.d/out
      <<"r","o","/","x","/","o",".","s","v","g">>,     \* ro/x/out.svg
      <<"r","o","/","o",".","p","n","g">> }            \* ro/out.png

\* the record kept of the last call
Outcome(op, input, r, branch, repeat) ==
    [op |-> op, input |-> input, exc |-> r.exc, msg |-> r.msg, value |-> r.value,
     branch |-> branch, repeat |-> repeat]

NoCall == Outcome("none", <<>>, Raised(NoExc, ""), "none", FALSE)

-----------------------------------------------------------------------------
(* A caller using the class directly: one generator object, one payload and *)
(* one requested output path per behaviour; the calls come in any order.    *)

Init ==
    /\ PIL_AVAILABLE \in BOOLEAN
    /\ SVG_AVAILABLE \in BOOLEAN
    /\ args \in [data : {Some(d) : d \in Payloads}, out : {Some(p) : p \in OutPaths}]
    /\ gen = None
    /\ obj = None
    /\ dirs = InitDirs
    /\ files = NoFiles
    /\ ret = NoCall
    /\ pc = "direct"
    /\ exit_code = None
    /\ log = <<>>
    /\ files0 = NoFiles
    /\ dirs0 = InitDirs

\* gen = QRCodeGenerator(error_level, box_size, border)
Construct ==
    /\ gen = None
    /\ \E e \in ErrorInputs, b \in BoxInputs, q \in BorderInputs :
          LET r == QRCodeGenerator(e, b, q)
          IN  /\ gen' = r.value
              /\ ret' = Outcome("init", <<e, b, q>>, r, "none", FALSE)
    /\ UNCHANGED <<PIL_AVAILABLE, SVG_AVAILABLE, args, obj, dirs, files,
                   pc, exit_code, log, files0, dirs0>>

\* obj = gen.make_png(data)
MakePng ==
    /\ gen # None
    /\ LET r == make_png(gen[1], args.data[1], PIL_AVAILABLE)
       IN  /\ obj' = IF r.exc = NoExc THEN r.value ELSE obj
           /\ ret' = Outcome("make_png", <<>>, r, "none", FALSE)
    /\ UNCHANGED <<PIL_AVAILABLE, SVG_AVAILABLE, args, gen, dirs, files,
                   pc, exit_code, log, files0, dirs0>>

\* obj = gen.make_svg(data, method)
MakeSvg ==
    /\ gen # None
    /\ \E method \in SvgMethods :
          LET r == make_svg(gen[1], args.data[1], method, SVG_AVAILABLE)
          IN  /\ obj' = IF r.exc = NoExc THEN r.value ELSE obj
              /\ ret' = Outcome("make_svg", <<method>>, r, "none", FALSE)
    /\ UNCHANGED <<PIL_AVAILABLE, SVG_AVAILABLE, args, gen, dirs, files,
                   pc, exit_code, log, files0, dirs0>>

\* saved = gen.save(obj, out_path)
Save ==
    /\ gen # None
    /\ obj # None
    /\ LET r == save(obj[1], args.out[1], PIL_AVAILABLE, dirs, files)
       IN  /\ dirs' = r.dirs
           /\ files' = r.files
           /\ ret' = Outcome("save", <<>>, r, r.branch, ret.op = "save")
    /\ UNCHANGED <<PIL_AVAILABLE, SVG_AVAILABLE, args, gen, obj,
                   pc, exit_code, log, files0, dirs0>>

Next == Construct \/ MakePng \/ MakeSvg \/ Save

Spec == Init /\ [][Next]_vars

-----------------------------------------------------------------------------
(* main(): one process run on a parsed command line.  argparse has already  *)
(* restricted --format, --error and --svg-method to their choices.          *)

Formats == {"png", "svg"}

FormatChars(fmt) == IF fmt = "png" THEN <<"p","n","g">> ELSE <<"s","v","g">>

\* os.path.join(os.getcwd(), f"qr_output.{args.format}")
DefaultOut(fmt) ==
    Join(Cwd, <<"q","r","_","o","u","t","p","u","t",".">> \o FormatChars(fmt))

\* command lines that run the pipeline, and command lines that start the GUI
PipelineArgs ==
    { a \in [data : {Some(d) : d \in Payloads},
             out : {None} \cup {Some(p) : p \in OutPaths},
             format : Formats, error : ValidErrorChoices, box : BoxInputs,
             border : BorderInputs, svg_method : SvgMethods, gui : {FALSE}] :
        a.format = "png" => a.svg_method = "path" }

GuiArgs ==
    { a \in [data : {None, Some("a")}, out : {None}, format : {"png"},
             error : {"M"}, box : {1}, border : {0}, svg_method : {"path"},
             gui : BOOLEAN] :
        a.gui \/ a.data = None }

InitCLI ==
    /\ PIL_AVAILABLE \in BOOLEAN
    /\ SVG_AVAILABLE \in BOOLEAN
    /\ args \in PipelineArgs \cup GuiArgs
    /\ gen = None
    /\ obj = None
    /\ dirs = InitDirs
    /\ files = NoFiles
    /\ ret = NoCall
    /\ pc = "main"
    /\ exit_code = None
    /\ log = <<>>
    /\ files0 = NoFiles
    /\ dirs0 = InitDirs

\* an uncaught exception ends the process with status 1
Uncaught ==
    /\ pc' = "exited"
    /\ exit_code' = Some(1)

\* lines 241-247: the GUI is started when asked for or when there is no data
MainStart ==
    /\ pc = "main"
    /\ pc' = IF args.gui \/ args.data = None THEN "gui" ELSE "construct"
    /\ UNCHANGED <<PIL_AVAILABLE, SVG_AVAILABLE, args, gen, obj, dirs, files, ret,
                   exit_code, log, files0, dirs0>>

\* lines 249-250
MainConstruct ==
    /\ pc = "construct"
    /\ LET r == QRCodeGenerator(args.error, args.box, args.border)
       IN  /\ ret' = Outcome("init", <<args.error, args.box, args.border>>, r,
                             "none", FALSE)
           /\ gen' = r.value
           /\ IF r.exc = NoExc
              THEN /\ pc' = "render"
                   /\ log' = Append(log, "validated")
                   /\ UNCHANGED exit_code
              ELSE /\ Uncaught
                   /\ UNCHANGED log
    /\ UNCHANGED <<PIL_AVAILABLE, SVG_AVAILABLE, args, obj, dirs, files,
                   files0, dirs0>>

\* lines 252-258
MainRender ==
    /\ pc = "render"
    /\ IF args.format = "png" /\ ~PIL_AVAILABLE
       THEN /\ pc' = "exited"
            /\ exit_code' = Some(2)
            /\ UNCHANGED <<obj, ret, log>>
       ELSE LET r == IF args.format = "png"
                     THEN make_png(gen[1], args.data[1], PIL_AVAILABLE)
                     ELSE make_svg(gen[1], args.data[1], args.svg_method,
                                   SVG_AVAILABLE)
            IN  /\ ret' = Outcome(IF args.format = "png" THEN "make_png"
                                  ELSE "make_svg", <<>>, r, "none", FALSE)
                /\ log' = IF r.encoder THEN Append(log, "encode") ELSE log
                /\ IF r.exc = NoExc
                   THEN /\ obj' = r.value
                        /\ pc' = "save"
                        /\ UNCHANGED exit_code
                   ELSE /\ Uncaught
                        /\ UNCHANGED obj
    /\ UNCHANGED <<PIL_AVAILABLE, SVG_AVAILABLE, args, gen, dirs, files,
                   files0, dirs0>>

\* lines 260-264
MainSave ==
    /\ pc = "save"
    /\ LET out == IF args.out # None /\ args.out[1] # <<>>
                  THEN args.out[1] ELSE DefaultOut(args.format)
           r   == save(obj[1], out, PIL_AVAILABLE, dirs, files)
       IN  /\ ret' = Outcome("save", <<out>>, r, r.branch, FALSE)
           /\ dirs' = r.dirs
           /\ files' = r.files
           /\ log' = log \o <<"makedirs">> \o
                     (IF r.branch # "none" THEN <<"write">> ELSE <<>>)
           /\ IF r.exc = NoExc
              THEN /\ pc' = "exited"
                   /\ exit_code' = Some(0)
              ELSE Uncaught
    /\ UNCHANGED <<PIL_AVAILABLE, SVG_AVAILABLE, args, gen, obj, files0, dirs0>>

NextCLI == MainStart \/ MainConstruct \/ MainRender \/ MainSave

SpecCLI == InitCLI /\ [][NextCLI]_vars

-----------------------------------------------------------------------------
(* Properties of the class, under Spec *)

\* the directory save must find or create for a requested path
ParentDir(p) == IF DirName(p) # <<>> THEN DirName(p) ELSE DOT

\* directory creation failed in the last save call
MakedirsFailed == ret.exc = "PermissionError" /\ ret.branch = "none"

ValidLevels == {"L", "M", "Q", "H"}

\* C1: save reconciles the extension with the declared format: a raster
\* artifact saved to a path whose extension is not .png (in any case) comes back
\* as the path with the extension replaced by .png, or with .png appended when
\* there is none; a vector artifact saved to a path with another non-empty
\* extension than .svg comes back with the extension replaced by .svg.
C1_ExtensionReconciled ==
    (ret.op = "save" /\ CanWrite(args.out[1]) /\ ~MakedirsFailed) =>
        LET p    == args.out[1]
            base == SplitExt(p)[1]
            ext  == SplitExt(p)[2]
        IN  /\ (IsRaster(obj[1]) /\ Lower(ext) # EXT_PNG)
                  => ret.value = Some(base \o EXT_PNG)
            /\ (IsVector(obj[1]) /\ ext # <<>> /\ Lower(ext) # EXT_SVG)
                  => ret.value = Some(base \o EXT_SVG)

\* C2: the branch save takes follows the kind of artifact: the raster branch
\* only ever gets a raster artifact and the SVG branch only a vector artifact,
\* whatever the extension and the capability flags.
C2_BranchFollowsArtifact ==
    ret.op = "save" =>
        /\ (ret.branch = "png" => IsRaster(obj[1]))
        /\ (ret.branch = "svg" => IsVector(obj[1]))

\* C3: saving a vector artifact to a path without extension fails with the
\* missing-extension error and returns no path, whatever the flags.
C3_VectorNeedsExtension ==
    (ret.op = "save" /\ IsVector(obj[1]) /\ SplitExt(args.out[1])[2] = <<>>
       /\ ~MakedirsFailed)
        => /\ ret.exc = "ValueError"
           /\ ret.msg = MSG_BAD_EXT
           /\ ret.value = None

\* C5 as stated: a rejected moduleSize and a rejected quietZone give different
\* errors, so the error alone tells which parameter was wrong.
C5_SpecificError ==
    (ret.op = "init" /\ ret.input[1] \in ValidLevels
       /\ ret.input[2] < 1 /\ ret.input[3] >= 0)
        => \A b \in BoxInputs, q \in BorderInputs :
              (b >= 1 /\ q < 0) =>
                  LET other == QRCodeGenerator(ret.input[1], b, q)
                  IN  <<other.exc, other.msg>> # <<ret.exc, ret.msg>>

\* C5 as amended: a level outside {L, M, Q, H} is rejected with the error-level
\* error, whatever the other two are; with a valid level, moduleSize < 1 or
\* quietZone < 0 is rejected with one error shared by the two parameters,
\* different from the error-level error; no object is constructed.
C5_RejectedWithSharedError ==
    ret.op = "init" =>
        LET e == ret.input[1]
            b == ret.input[2]
            q == ret.input[3]
        IN  /\ e \notin ValidLevels
               => /\ ret.exc = "ValueError" /\ ret.msg = MSG_ERROR_LEVEL
                  /\ ret.value = None /\ gen = None
            /\ (e \in ValidLevels /\ (b < 1 \/ q < 0))
               => /\ ret.exc = "ValueError" /\ ret.msg = MSG_BOX_BORDER
                  /\ ret.value = None /\ gen = None
            /\ MSG_ERROR_LEVEL # MSG_BOX_BORDER

C5_Witness ==
    /\ ret.op = "init" /\ ret.input[1] \in ValidLevels
    /\ ret.input[2] < 1 /\ ret.input[3] >= 0
    /\ ret.exc = "ValueError"

\* C7: a constructor call with a level of {L, M, Q, H}, moduleSize >= 1 and
\* quietZone >= 0 returns an object holding exactly those three values, and no
\* later make_png, make_svg or save call changes them.
C7_ConfigEchoedAndKept ==
    [][ /\ (ret'.op = "init" /\ ret'.input[1] \in ValidLevels
              /\ ret'.input[2] >= 1 /\ ret'.input[3] >= 0)
           => /\ ret'.exc = NoExc
              /\ gen' = Some([error_level |-> ret'.input[1],
                              box_size    |-> ret'.input[2],
                              border      |-> ret'.input[3]])
        /\ gen # None => gen' = gen ]_vars

C7_Witness ==
    /\ gen = Some([error_level |-> "Q", box_size |-> 2, border |-> 1])
    /\ obj # None
    /\ ret.op = "save" /\ ret.exc = NoExc

\* C8: a save call that repeats the previous save call (same artifact, same
\* path) gives the same outcome and leaves the files and directories as the
\* first call left them.
C8_SaveIdempotent ==
    [][ (ret.op = "save" /\ ret'.op = "save")
           => /\ ret'.exc = ret.exc
              /\ ret'.value = ret.value
              /\ files' = files
              /\ dirs' = dirs ]_vars

C8_Witness ==
    /\ ret.op = "save" /\ ret.repeat /\ ret.exc = NoExc
    /\ ret.value[1] \in DOMAIN files
    /\ Len(files[ret.value[1]]) = 1

\* C10: after a save call in which directory creation did not fail, the parent
\* directory of the requested path exists, also when save raised the
\* unsupported-extension error.
C10_ParentDirExists ==
    (ret.op = "save" /\ ~MakedirsFailed) => ParentDir(args.out[1]) \in dirs

C10_Witness ==
    /\ ret.op = "save" /\ ret.exc = "ValueError" /\ ret.msg = MSG_BAD_EXT
    /\ ParentDir(args.out[1]) \notin InitDirs
    /\ ParentDir(args.out[1]) \in dirs

-----------------------------------------------------------------------------
(* Properties of the command-line pipeline, under SpecCLI *)

ConfigValid ==
    args.error \in ValidLevels /\ args.box >= 1 /\ args.border >= 0

\* the backend the requested format needs is not installed
BackendMissing ==
    \/ args.format = "png" /\ ~PIL_AVAILABLE
    \/ args.format = "svg" /\ ~SVG_AVAILABLE

Has(e) == \E i \in 1..Len(log) : log[i] = e
Pos(e) == IF Has(e) THEN CHOOSE i \in 1..Len(log) : log[i] = e ELSE 0

FsUntouched == dirs = dirs0 /\ files = files0

\* C4: an empty payload is always rejected: no artifact is produced, nothing
\* is saved and the run does not end in success.
C4_EmptyPayloadRejected ==
    (args.data = Some("") /\ ~args.gui) =>
        /\ obj = None
        /\ FsUntouched
        /\ (ret.op \in {"make_png", "make_svg"} => ret.exc # NoExc)
        /\ (pc = "exited" => exit_code # Some(0))

\* C6: a run (with a valid configuration) ends with status 2 exactly when the
\* backend of the requested format is missing, with 0 exactly when the file was
\* saved, and with 1 otherwise.
C6_ExitCodes ==
    (pc = "exited" /\ ConfigValid) =>
        /\ exit_code \in {Some(0), Some(1), Some(2)}
        /\ exit_code = Some(2) <=> BackendMissing
        /\ exit_code = Some(0) <=> (ret.op = "save" /\ ret.exc = NoExc)

\* C9: the encoder is invoked only after the configuration was validated, the
\* file system is touched only after render returned an artifact, and a run
\* that fails on the configuration, on a missing backend or in the encoder
\* invokes nothing downstream and leaves the file system as it was.
C9_PipelineOrdered ==
    /\ Has("encode") => (ConfigValid /\ 0 < Pos("validated")
                         /\ Pos("validated") < Pos("encode"))
    /\ (Has("makedirs") \/ Has("write") \/ ~FsUntouched)
          => (obj # None /\ 0 < Pos("encode") /\ Pos("encode") < Pos("makedirs"))
    /\ (pc = "exited" /\ ~ConfigValid) => (~Has("encode") /\ gen = None)
    /\ (pc = "exited" /\ ConfigValid /\ BackendMissing) => ~Has("encode")
    /\ (pc = "exited"
          /\ (~ConfigValid \/ BackendMissing
                \/ ret.exc = "DataOverflowError"))
          => /\ FsUntouched
             /\ obj = None
             /\ ~Has("makedirs") /\ ~Has("write")
             /\ exit_code \in {Some(1), Some(2)}

C9_Witness ==
    /\ pc = "exited"
    /\ ret.op = "make_svg" /\ ret.exc = "DataOverflowError"
    /\ log = <<"validated", "encode">>
    /\ FsUntouched

====
